---- MODULE Spec2Model ----
(***************************************************************************)
(* A model of octo-server, a small HTTP/1.1 server written over raw TCP    *)
(* streams (src/app/main.go, src/app/connection.go, src/app/utils.go).     *)
(*                                                                         *)
(* Bytes are one-character strings and every byte string of the program    *)
(* (a stream, a line, a header name, a body) is a sequence of them, so     *)
(* that the parsers are computed on the bytes the way the code computes    *)
(* them.  One step of a connection's goroutine is one iteration of the     *)
(* loop of HandleConnection; goroutines of different connections           *)
(* interleave at that grain.                                               *)
(***************************************************************************)
EXTENDS Integers, Sequences, FiniteSets, TLC

(***************************************************************************)
(* Bounds of the model.                                                    *)
(***************************************************************************)
NumConns == 2
MaxMsgs == 2
MaxRead == 2

Conns == 1..NumConns

(***************************************************************************)
(* Byte strings the program names.                                         *)
(***************************************************************************)
CRLF == <<"\r", "\n">>
s_GET == <<"G", "E", "T">>
s_POST == <<"P", "O", "S", "T">>
s_HTTP11 == <<"H", "T", "T", "P", "/", "1", ".", "1">>
s_Root == <<"/">>
s_UserAgentPath == <<"/", "u", "s", "e", "r", "-", "a", "g", "e", "n", "t">>
s_EchoPrefix == <<"/", "e", "c", "h", "o", "/">>
s_FilesPrefix == <<"/", "f", "i", "l", "e", "s", "/">>
s_Connection == <<"C", "o", "n", "n", "e", "c", "t", "i", "o", "n">>
s_close == <<"c", "l", "o", "s", "e">>
s_UserAgent == <<"U", "s", "e", "r", "-", "A", "g", "e", "n", "t">>
s_AcceptEncoding == <<"A", "c", "c", "e", "p", "t", "-", "E", "n", "c", "o", "d", "i", "n", "g">>
s_ContentLength == <<"C", "o", "n", "t", "e", "n", "t", "-", "L", "e", "n", "g", "t", "h">>
s_ContentType == <<"C", "o", "n", "t", "e", "n", "t", "-", "T", "y", "p", "e">>
s_ContentEncoding == <<"C", "o", "n", "t", "e", "n", "t", "-", "E", "n", "c", "o", "d", "i", "n", "g">>
s_gzip == <<"g", "z", "i", "p">>
s_TextPlain == <<"t", "e", "x", "t", "/", "p", "l", "a", "i", "n">>
s_OctetStream == <<"a", "p", "p", "l", "i", "c", "a", "t", "i", "o", "n", "/", "o", "c", "t", "e", "t", "-", "s", "t", "r", "e", "a", "m">>

(***************************************************************************)
(* Go maps from byte strings to byte strings.                              *)
(***************************************************************************)
EmptyMap == [k \in {} |-> << >>]

HasKey(m, k) == k \in DOMAIN m

MapPut(m, k, v) == [x \in (DOMAIN m) \cup {k} |-> IF x = k THEN v ELSE m[x]]

(***************************************************************************)
(* strings.Split, strings.Join and strings.TrimSpace on byte strings.      *)
(***************************************************************************)
MinOf(S) == CHOOSE x \in S : \A y \in S : x <= y

MaxOf(S) == CHOOSE x \in S : \A y \in S : y <= x

FirstOrZero(P) == IF P = {} THEN 0 ELSE MinOf(P)

\* The index of the first occurrence of sub in s, or 0.
IndexOf(s, sub) ==
    FirstOrZero({i \in 1..(Len(s) - Len(sub) + 1) :
                    SubSeq(s, i, i + Len(sub) - 1) = sub})

RECURSIVE Split(_, _), SplitAt(_, _, _)
\* Split, given the index i of the first separator (0: none).
SplitAt(s, sep, i) ==
    IF i = 0 THEN <<s>>
    ELSE <<SubSeq(s, 1, i - 1)>> \o Split(SubSeq(s, i + Len(sep), Len(s)), sep)

Split(s, sep) == SplitAt(s, sep, IndexOf(s, sep))

RECURSIVE Join(_, _)
Join(tokens, sep) ==
    IF Len(tokens) = 0 THEN << >>
    ELSE IF Len(tokens) = 1 THEN tokens[1]
    ELSE tokens[1] \o sep \o Join(Tail(tokens), sep)

IsSpace(ch) == ch \in {" ", "\t", "\n", "\r"}

\* s cut to the span of the indices N of its non-space bytes.
TrimTo(s, N) == IF N = {} THEN << >> ELSE SubSeq(s, MinOf(N), MaxOf(N))

TrimSpace(s) == TrimTo(s, {i \in 1..Len(s) : ~IsSpace(s[i])})

(***************************************************************************)
(* The Byte-Line Reader.  buf is what the peer has sent and the server has *)
(* not read yet; peer is "open" (more may come: a read with nothing        *)
(* buffered blocks), "closed" (the peer shut the stream: a read with       *)
(* nothing buffered yields io.EOF) or "reset" (such a read yields another  *)
(* error).  The result: the line, the error ("nil", "EOF", "reset", or     *)
(* "block" when the goroutine waits for bytes) and the unread rest.        *)
(***************************************************************************)
\* The result, given the index i of the first CRLF of buf (0: none).
LineAt(buf, peer, i) ==
    IF i > 0
    THEN [line |-> SubSeq(buf, 1, i - 1), err |-> "nil",
          rest |-> SubSeq(buf, i + 2, Len(buf))]
    ELSE IF peer = "closed"
    THEN [line |-> buf, err |-> "EOF", rest |-> << >>]
    ELSE IF peer = "reset"
    THEN [line |-> << >>, err |-> "reset", rest |-> << >>]
    ELSE [line |-> << >>, err |-> "block", rest |-> buf]

\* A variant that does not tell end of stream from other read errors.
readUntilCRLF_EOFAsError(buf, peer) ==
    LineAt(buf, IF peer = "closed" THEN "reset" ELSE peer, IndexOf(buf, CRLF))

readUntilCRLF(buf, peer) == LineAt(buf, peer, IndexOf(buf, CRLF))

(***************************************************************************)
(* The Request-Line Parser.                                                *)
(***************************************************************************)
NoRequest ==
    [HTTPMethod |-> << >>, RequestTarget |-> << >>, HTTPVersion |-> << >>,
     Headers |-> EmptyMap]

\* A variant that asks for at least three tokens.
ReqOfTokens_AtLeastThree(tokens, rest) ==
    IF Len(tokens) < 3
    THEN [err |-> "invalid request line", req |-> NoRequest, rest |-> rest]
    ELSE [err |-> "nil",
          req |-> [HTTPMethod |-> tokens[1], RequestTarget |-> tokens[2],
                   HTTPVersion |-> tokens[3], Headers |-> EmptyMap],
          rest |-> rest]

\* The request of the tokens of a line, rest being what follows the line.
ReqOfTokens(tokens, rest) ==
    IF Len(tokens) # 3
    THEN [err |-> "invalid request line", req |-> NoRequest, rest |-> rest]
    ELSE [err |-> "nil",
          req |-> [HTTPMethod |-> tokens[1], RequestTarget |-> tokens[2],
                   HTTPVersion |-> tokens[3], Headers |-> EmptyMap],
          rest |-> rest]

\* r is what readUntilCRLF returned.
ReqOfLine(r) ==
    IF r.err # "nil"
    THEN [err |-> r.err, req |-> NoRequest, rest |-> r.rest]
    ELSE ReqOfTokens(Split(r.line, <<" ">>), r.rest)

readReqLine(buf, peer) == ReqOfLine(readUntilCRLF(buf, peer))

(***************************************************************************)
(* The Header Parser: lines until the empty one.                           *)
(***************************************************************************)
RECURSIVE readHeaderLines(_, _, _), HeaderOfLine(_, _, _), HeaderOfTokens(_, _, _, _)
\* A variant that takes the second token alone as the value.
HeaderOfTokens_SecondToken(tokens, rest, peer, headers) ==
    IF Len(tokens) < 2
    THEN [err |-> "invalid header", headers |-> EmptyMap, rest |-> rest]
    ELSE readHeaderLines(rest, peer,
             MapPut(headers, TrimSpace(tokens[1]), TrimSpace(tokens[2])))

\* tokens are those of a header line split at colons.
HeaderOfTokens(tokens, rest, peer, headers) ==
    IF Len(tokens) < 2
    THEN [err |-> "invalid header", headers |-> EmptyMap, rest |-> rest]
    ELSE readHeaderLines(rest, peer,
             MapPut(headers, TrimSpace(tokens[1]),
                    TrimSpace(Join(Tail(tokens), <<":">>))))

\* r is what readUntilCRLF returned.
HeaderOfLine(r, peer, headers) ==
    IF r.err # "nil"
    THEN [err |-> r.err, headers |-> EmptyMap, rest |-> r.rest]
    ELSE IF r.line = << >>
    THEN [err |-> "nil", headers |-> headers, rest |-> r.rest]
    ELSE HeaderOfTokens(Split(r.line, <<":">>), r.rest, peer, headers)

\* One turn of the loop of readReqHeaders, headers being the map so far.
readHeaderLines(buf, peer, headers) ==
    HeaderOfLine(readUntilCRLF(buf, peer), peer, headers)

readReqHeaders(buf, peer) == readHeaderLines(buf, peer, EmptyMap)

(***************************************************************************)
(* NewConnHandler.  A *Response is [nil |-> TRUE] or a record with         *)
(* nil |-> FALSE and the fields of the struct.  The handler is built with  *)
(* only its connection set, so its resp is the nil pointer when the        *)
(* response header map is assigned through it: that assignment faults      *)
(* (panic |-> TRUE) on every request whose line and headers parse.  The    *)
(* field at says how far the call came: "line", "headers", "resp" (the     *)
(* assignment through resp) or "done".                                     *)
(***************************************************************************)
NilResponse == [nil |-> TRUE]

ZeroResponse ==
    [nil |-> FALSE, StatusCode |-> 0, Status |-> << >>, Headers |-> EmptyMap]

\* c := &ConnHandler{conn: conn}
NewHandlerValue == [req |-> NoRequest, resp |-> NilResponse]

\* c.resp.Headers = make(map[string]string); return c, nil
AssignRespHeaders(c, rest) ==
    IF c.resp.nil
    THEN [err |-> "nil", at |-> "resp", c |-> c, rest |-> rest, panic |-> TRUE]
    ELSE [err |-> "nil", at |-> "done",
          c |-> [c EXCEPT !.resp = [c.resp EXCEPT !.Headers = EmptyMap]],
          rest |-> rest, panic |-> FALSE]

\* h is what readReqHeaders returned.
AfterReqHeaders(c, h) ==
    IF h.err # "nil"
    THEN [err |-> h.err, at |-> "headers", c |-> c, rest |-> h.rest,
          panic |-> FALSE]
    ELSE AssignRespHeaders([c EXCEPT !.req = [c.req EXCEPT !.Headers = h.headers]],
                           h.rest)

\* l is what readReqLine returned.
AfterReqLine(c, l, peer) ==
    IF l.err # "nil"
    THEN [err |-> l.err, at |-> "line", c |-> c, rest |-> l.rest, panic |-> FALSE]
    ELSE AfterReqHeaders([c EXCEPT !.req = l.req], readReqHeaders(l.rest, peer))

NewConnHandler(buf, peer) ==
    AfterReqLine(NewHandlerValue, readReqLine(buf, peer), peer)

(***************************************************************************)
(* fmt.Sprint of a length and strconv.Atoi.                                *)
(***************************************************************************)
Digits == <<"0", "1", "2", "3", "4", "5", "6", "7", "8", "9">>

RECURSIVE Itoa(_)
Itoa(n) ==
    IF n < 10 THEN <<Digits[n + 1]>>
    ELSE Itoa(n \div 10) \o <<Digits[(n % 10) + 1]>>

DigitVal(ch) == (CHOOSE i \in 1..10 : Digits[i] = ch) - 1

IsDigit(ch) == \E i \in 1..10 : Digits[i] = ch

RECURSIVE DigitsVal(_)
DigitsVal(s) ==
    IF Len(s) = 0 THEN 0
    ELSE 10 * DigitsVal(SubSeq(s, 1, Len(s) - 1)) + DigitVal(s[Len(s)])

\* The value of the digits d, negated when neg.
AtoiDigits(d, neg) ==
    IF Len(d) = 0 \/ \E i \in 1..Len(d) : ~IsDigit(d[i])
    THEN [ok |-> FALSE, val |-> 0]
    ELSE [ok |-> TRUE, val |-> IF neg THEN 0 - DigitsVal(d) ELSE DigitsVal(d)]

\* strconv.Atoi: an optional sign, then one or more decimal digits.
Atoi(s) ==
    IF Len(s) > 0 /\ s[1] \in {"+", "-"}
    THEN AtoiDigits(Tail(s), s[1] = "-")
    ELSE AtoiDigits(s, FALSE)

(***************************************************************************)
(* The Response Builder: Status, Header and Body of ConnHandler.           *)
(***************************************************************************)
s_OK == <<"O", "K">>
s_Created == <<"C", "r", "e", "a", "t", "e", "d">>
s_BadRequest == <<"B", "a", "d", " ", "R", "e", "q", "u", "e", "s", "t">>
s_NotFound == <<"N", "o", "t", " ", "F", "o", "u", "n", "d">>
s_InternalServerError == <<"I", "n", "t", "e", "r", "n", "a", "l", " ", "S", "e", "r", "v", "e", "r", " ", "E", "r", "r", "o", "r">>

Status(c, statusCode) ==
    [c EXCEPT !.resp =
        [c.resp EXCEPT
            !.StatusCode = statusCode,
            !.Status = IF statusCode = 200 THEN s_OK
                       ELSE IF statusCode = 201 THEN s_Created
                       ELSE IF statusCode = 400 THEN s_BadRequest
                       ELSE IF statusCode = 404 THEN s_NotFound
                       ELSE IF statusCode = 500 THEN s_InternalServerError
                       ELSE c.resp.Status]]

Header(c, key, val) ==
    [c EXCEPT !.resp = [c.resp EXCEPT !.Headers = MapPut(c.resp.Headers, key, val)]]

(***************************************************************************)
(* What one call of an endpoint handler does: the responses it wrote on    *)
(* the connection (none or one), whether it ended the process (exit: ""    *)
(* or the reason of os.Exit(1); "block" when it waits for bytes), whether  *)
(* it faulted, the bytes of the stream it left unread and the files        *)
(* afterwards.                                                             *)
(***************************************************************************)
Outcome(out, exit, panic, rest, files) ==
    [out |-> out, exit |-> exit, panic |-> panic, rest |-> rest, files |-> files]

\* Body writes the response; wok is whether the transport write succeeds.
Body(c, blob, wok, rest, files) ==
    IF wok
    THEN Outcome(<<[StatusCode |-> c.resp.StatusCode, Status |-> c.resp.Status,
                    Headers |-> c.resp.Headers, Body |-> blob]>>,
                 "", FALSE, rest, files)
    ELSE Outcome(<< >>, "write", FALSE, rest, files)

\* The bytes Body writes for the response r.  The header lines come in the
\* order in which the iteration over the map yields the names, which the
\* language leaves open: order is one enumeration of them.
RECURSIVE HeaderLines(_, _)
HeaderLines(headers, order) ==
    IF Len(order) = 0 THEN << >>
    ELSE order[1] \o <<":", " ">> \o headers[order[1]] \o CRLF
             \o HeaderLines(headers, Tail(order))

Serialize(r, order) ==
    s_HTTP11 \o <<" ">> \o Itoa(r.StatusCode) \o <<" ">> \o r.Status \o CRLF
        \o HeaderLines(r.Headers, order) \o CRLF \o r.Body

\* The enumerations of the set S.
Orders(S) ==
    {f \in [1..Cardinality(S) -> S] :
        \A i, j \in 1..Cardinality(S) : f[i] = f[j] => i = j}

RootHandler(c, wok, rest, files) == Body(Status(c, 200), << >>, wok, rest, files)

NotFoundHandler(c, wok, rest, files) == Body(Status(c, 404), << >>, wok, rest, files)

BadReqHandler(c, wok, rest, files) == Body(Status(c, 400), << >>, wok, rest, files)

InternalServerErrHandler(c, wok, rest, files) ==
    Body(Status(c, 500), << >>, wok, rest, files)

(***************************************************************************)
(* The route patterns EchoEndpointRegx and FileEndpointRegx: the literal   *)
(* /echo/ or /files/ followed by a group capturing any characters.         *)
(* Neither is anchored: a pattern matches when its literal occurs anywhere *)
(* in the target, and the captured group is what follows the leftmost      *)
(* occurrence, up to a line feed (which `.` does not match).               *)
(***************************************************************************)
RegxMatch(literal, target) == IndexOf(target, literal) > 0

\* s up to its first line feed, at index nl (0: none).
UpTo(s, nl) == IF nl = 0 THEN s ELSE SubSeq(s, 1, nl - 1)

UpToLineFeed(s) == UpTo(s, IndexOf(s, <<"\n">>))

RegxSubmatch(literal, target) ==
    UpToLineFeed(SubSeq(target, IndexOf(target, literal) + Len(literal), Len(target)))

EchoEndpointRegxMatch(target) == RegxMatch(s_EchoPrefix, target)

FileEndpointRegxMatch(target) == RegxMatch(s_FilesPrefix, target)

(***************************************************************************)
(* gzip, kept abstract: a container of a fixed header, the payload and a   *)
(* fixed-length trailer, so that the compressed bytes differ from the      *)
(* payload, their length differs from the payload's, and the payload can   *)
(* be recovered from them.                                                 *)
(***************************************************************************)
GzipHeader == <<"\\x1f", "\\x8b", "\\x08">>

GzipTrailer == <<"crc32", "isize">>

Gzip(payload) == GzipHeader \o payload \o GzipTrailer

Gunzip(bytes) == SubSeq(bytes, Len(GzipHeader) + 1, Len(bytes) - Len(GzipTrailer))

(***************************************************************************)
(* EchoHandler and UserAgentHandler.                                       *)
(***************************************************************************)
\* A variant that compares the tokens without trimming them.
HasGzip_Untrimmed(encSchemes) ==
    \E i \in 1..Len(encSchemes) : encSchemes[i] = s_gzip

HasGzip(encSchemes) ==
    \E i \in 1..Len(encSchemes) : TrimSpace(encSchemes[i]) = s_gzip

shouldCompress(headers) ==
    /\ HasKey(headers, s_AcceptEncoding)
    /\ HasGzip(Split(headers[s_AcceptEncoding], <<",">>))

\* The branch that compresses: b is the gzip of the captured string.
EchoGzip(c, b, wok, rest, files) ==
    Body(Header(Header(Header(Status(c, 200),
             s_ContentType, s_TextPlain),
             s_ContentEncoding, s_gzip),
             s_ContentLength, Itoa(Len(b))),
         b, wok, rest, files)

\* A variant that declares the length of the whole target.
EchoPlain_LengthOfTarget(c, str, wok, rest, files) ==
    Body(Header(Header(Status(c, 200),
             s_ContentType, s_TextPlain),
             s_ContentLength, Itoa(Len(c.req.RequestTarget))),
         str, wok, rest, files)

\* The branch that does not compress.
EchoPlain(c, str, wok, rest, files) ==
    Body(Header(Header(Status(c, 200),
             s_ContentType, s_TextPlain),
             s_ContentLength, Itoa(Len(str))),
         str, wok, rest, files)

EchoHandler(c, wok, rest, files) ==
    IF shouldCompress(c.req.Headers)
    THEN EchoGzip(c, Gzip(RegxSubmatch(s_EchoPrefix, c.req.RequestTarget)),
                  wok, rest, files)
    ELSE EchoPlain(c, RegxSubmatch(s_EchoPrefix, c.req.RequestTarget),
                   wok, rest, files)

UserAgentHandler(c, wok, rest, files) ==
    IF ~HasKey(c.req.Headers, s_UserAgent)
    THEN Outcome(<< >>, "user-agent", FALSE, rest, files)
    ELSE Body(Header(Header(Status(c, 200),
                 s_ContentType, s_TextPlain),
                 s_ContentLength, Itoa(Len(c.req.Headers[s_UserAgent]))),
              c.req.Headers[s_UserAgent], wok, rest, files)

(***************************************************************************)
(* The files.  files maps a path to the bytes stored there; io is what the *)
(* file system does for this call: "ok", "EIO-open" (the open fails for a  *)
(* reason other than absence) or "EIO-data" (the open succeeds, creating   *)
(* or truncating the file when writing, and the transfer of data fails).   *)
(***************************************************************************)
isDirExists(flags, dirs) ==
    IF flags.directory \in dirs THEN flags.directory ELSE << >>

PathOf(dir, filename) == dir \o <<"/">> \o filename

\* GetFileHandler, path being dir + "/" + filename.
GetFileAt(c, path, wok, rest, files, io) ==
    IF ~HasKey(files, path) THEN NotFoundHandler(c, wok, rest, files)
    ELSE IF io # "ok" THEN InternalServerErrHandler(c, wok, rest, files)
    ELSE Body(Header(Header(Status(c, 200),
                 s_ContentType, s_OctetStream),
                 s_ContentLength, Itoa(Len(files[path]))),
              files[path], wok, rest, files)

GetFileHandler(c, dir, filename, wok, rest, files, io) ==
    GetFileAt(c, PathOf(dir, filename), wok, rest, files, io)

(***************************************************************************)
(* ReadRequestBody.  One Read is made into a buffer of Content-Length      *)
(* bytes; nread is how many bytes that one Read delivers at most (the      *)
(* transport may deliver fewer than are asked for).  The buffer is         *)
(* returned whole, the bytes not delivered left zero.  A negative length   *)
(* faults in make.                                                         *)
(***************************************************************************)
NUL == "\\x00"

Zeros(n) == [i \in 1..n |-> NUL]

BodyResult(err, data, rest, panic) ==
    [err |-> err, data |-> data, rest |-> rest, panic |-> panic]

\* c.conn.Read(data) delivering k bytes into the buffer of contLen bytes.
ConnRead(contLen, buf, k) ==
    BodyResult("nil", SubSeq(buf, 1, k) \o Zeros(contLen - k),
               SubSeq(buf, k + 1, Len(buf)), FALSE)

\* a is what strconv.Atoi returned for the Content-Length header.
ReadBodyOfLength(a, buf, peer, nread) ==
    IF ~a.ok THEN BodyResult("syntax", << >>, buf, FALSE)
    ELSE IF a.val < 0 THEN BodyResult("nil", << >>, buf, TRUE)
    ELSE IF a.val = 0 THEN BodyResult("nil", << >>, buf, FALSE)
    ELSE IF Len(buf) > 0 THEN ConnRead(a.val, buf, MinOf({a.val, Len(buf), nread}))
    ELSE IF peer = "closed" THEN BodyResult("nil", Zeros(a.val), buf, FALSE)
    ELSE IF peer = "reset" THEN BodyResult("reset", << >>, buf, FALSE)
    ELSE BodyResult("block", << >>, buf, FALSE)

ReadRequestBody(c, buf, peer, nread) ==
    IF ~HasKey(c.req.Headers, s_ContentLength)
    THEN BodyResult("missing", << >>, buf, FALSE)
    ELSE ReadBodyOfLength(Atoi(c.req.Headers[s_ContentLength]), buf, peer, nread)

\* os.WriteFile opens the file for writing, creating it or truncating it to
\* no bytes, then writes data from its start, then closes it.
OpenTrunc(files, path) == MapPut(files, path, << >>)

\* A write of data at offset 0 of the open file.
WriteAtStart(files, path, data) ==
    MapPut(files, path,
           data \o SubSeq(files[path], Len(data) + 1, Len(files[path])))

WriteFile(files, path, data) ==
    WriteAtStart(OpenTrunc(files, path), path, data)

\* SaveFileHandler, b being what ReadRequestBody returned.
SaveBody(c, path, wok, b, files, io) ==
    IF b.panic THEN Outcome(<< >>, "", TRUE, b.rest, files)
    ELSE IF b.err = "block" THEN Outcome(<< >>, "block", FALSE, b.rest, files)
    ELSE IF b.err # "nil" \/ io = "EIO-open"
    THEN InternalServerErrHandler(c, wok, b.rest, files)
    ELSE IF io = "EIO-data"
    THEN InternalServerErrHandler(c, wok, b.rest, OpenTrunc(files, path))
    ELSE Body(Status(c, 201), << >>, wok, b.rest, WriteFile(files, path, b.data))

SaveFileHandler(c, dir, filename, wok, buf, peer, nread, files, io) ==
    SaveBody(c, PathOf(dir, filename), wok, ReadRequestBody(c, buf, peer, nread),
             files, io)

(***************************************************************************)
(* The body of the loop of HandleConnection after NewConnHandler has       *)
(* returned a handler: the Connection header, the switch over the routes   *)
(* and the decision to close.  in holds what the environment does during   *)
(* this iteration: wok, nread and io as above.  The result is the outcome  *)
(* o of the handler called and ret, whether HandleConnection returns (and  *)
(* so closes the connection).                                              *)
(***************************************************************************)
Routed(o, ret) == [o |-> o, ret |-> ret]

\* The case of the switch for the file endpoint, dir being what isDirExists
\* returned and filename the group captured from the target.
FilesCase(c, dir, filename, shouldCloseConn, rest, peer, files, in) ==
    IF dir = << >>
    THEN Routed(InternalServerErrHandler(c, in.wok, rest, files), TRUE)
    ELSE IF filename = << >>
    THEN Routed(BadReqHandler(c, in.wok, rest, files), TRUE)
    ELSE IF c.req.HTTPMethod = s_GET
    THEN Routed(GetFileHandler(c, dir, filename, in.wok, rest, files, in.io),
                shouldCloseConn)
    ELSE Routed(SaveFileHandler(c, dir, filename, in.wok, rest, peer, in.nread,
                                files, in.io),
                shouldCloseConn)

\* The switch, c being the handler after the Connection header was set.
Switch(c, shouldCloseConn, rest, peer, flags, dirs, files, in) ==
    IF c.req.RequestTarget = s_Root
    THEN Routed(RootHandler(c, in.wok, rest, files), shouldCloseConn)
    ELSE IF c.req.RequestTarget = s_UserAgentPath
    THEN Routed(UserAgentHandler(c, in.wok, rest, files), shouldCloseConn)
    ELSE IF EchoEndpointRegxMatch(c.req.RequestTarget)
    THEN Routed(EchoHandler(c, in.wok, rest, files), shouldCloseConn)
    ELSE IF FileEndpointRegxMatch(c.req.RequestTarget)
    THEN FilesCase(c, isDirExists(flags, dirs),
                   RegxSubmatch(s_FilesPrefix, c.req.RequestTarget),
                   shouldCloseConn, rest, peer, files, in)
    ELSE Routed(NotFoundHandler(c, in.wok, rest, files), shouldCloseConn)

WantsClose(req) ==
    /\ HasKey(req.Headers, s_Connection)
    /\ req.Headers[s_Connection] = s_close

\* A variant that sets the Connection header whatever the request holds.
LoopBody_AlwaysConnectionClose(c, rest, peer, flags, dirs, files, in) ==
    Switch(Header(c, s_Connection, s_close), WantsClose(c.req), rest, peer, flags,
           dirs, files, in)

LoopBody(c, rest, peer, flags, dirs, files, in) ==
    IF WantsClose(c.req)
    THEN Switch(Header(c, s_Connection, s_close), TRUE, rest, peer, flags, dirs,
                files, in)
    ELSE Switch(c, FALSE, rest, peer, flags, dirs, files, in)

(***************************************************************************)
(* The environment: what clients send, the -directory flag, the            *)
(* directories and files that exist.                                       *)
(***************************************************************************)
ReqLineBytes(method, target) ==
    method \o <<" ">> \o target \o <<" ">> \o s_HTTP11 \o CRLF

HeaderBytes(name, value) == name \o <<":", " ">> \o value \o CRLF

s_Agent == <<"c", "u", "r", "l">>
s_FilesA == s_FilesPrefix \o <<"a">>
s_FilesX == s_FilesPrefix \o <<"x">>
s_EchoAb == s_EchoPrefix \o <<"a", "b">>
s_Nope == <<"/", "n", "o", "p", "e">>

MsgRoot == ReqLineBytes(s_GET, s_Root) \o CRLF
MsgRootClose ==
    ReqLineBytes(s_GET, s_Root) \o HeaderBytes(s_Connection, s_close) \o CRLF
MsgUserAgent ==
    ReqLineBytes(s_GET, s_UserAgentPath) \o HeaderBytes(s_UserAgent, s_Agent) \o CRLF
MsgUserAgentMissing == ReqLineBytes(s_GET, s_UserAgentPath) \o CRLF
MsgEcho == ReqLineBytes(s_GET, s_EchoAb) \o CRLF
MsgEchoGzip ==
    ReqLineBytes(s_GET, s_EchoAb)
        \o HeaderBytes(s_AcceptEncoding, <<"b", "r", ",", " ">> \o s_gzip) \o CRLF
MsgNopePost ==
    ReqLineBytes(s_POST, s_Nope) \o HeaderBytes(s_ContentLength, <<"0">>) \o CRLF
MsgFilesEmptyGet == ReqLineBytes(s_GET, s_FilesPrefix) \o CRLF
MsgFilesEmptyPost ==
    ReqLineBytes(s_POST, s_FilesPrefix) \o HeaderBytes(s_ContentLength, <<"0">>) \o CRLF
MsgFilesGetA == ReqLineBytes(s_GET, s_FilesA) \o CRLF
MsgFilesGetX == ReqLineBytes(s_GET, s_FilesX) \o CRLF
MsgFilesPostX ==
    ReqLineBytes(s_POST, s_FilesX) \o HeaderBytes(s_ContentLength, <<"2">>) \o CRLF
        \o <<"h", "i">>
\* A request line of two tokens.
MsgBadLine == s_GET \o <<" ">> \o s_Root \o CRLF
\* A header line without a colon.
MsgBadHeader == ReqLineBytes(s_GET, s_Root) \o s_Agent \o CRLF \o CRLF
\* A request cut short inside its headers.
MsgPartial == ReqLineBytes(s_GET, s_Root) \o s_UserAgent

Messages ==
    {MsgRoot, MsgRootClose, MsgUserAgent, MsgUserAgentMissing, MsgEcho,
     MsgEchoGzip, MsgNopePost, MsgFilesEmptyGet, MsgFilesEmptyPost, MsgFilesGetA, MsgFilesGetX,
     MsgFilesPostX, MsgBadLine, MsgBadHeader, MsgPartial}

DirData == <<"d">>
DirMissing == <<"m">>

\* The values of the -directory flag: not given (""), a directory that
\* exists, one that does not.
Directories == {<< >>, DirData, DirMissing}

ExistingDirs == {DirData}

InitFiles == MapPut(EmptyMap, PathOf(DirData, <<"a">>), <<"o", "k">>)

IOs == {"ok", "EIO-open", "EIO-data"}

Inputs == [wok : BOOLEAN, nread : 1..MaxRead, io : IOs]

(***************************************************************************)
(* The state.                                                              *)
(*   proc     the process: "init", "running", "exited" (os.Exit(1)) or     *)
(*            "panicked" (an unrecovered runtime panic of a goroutine)     *)
(*   cause    why the process ended: "", "bind", "write", "user-agent",    *)
(*            "nil-deref", "makeslice"                                     *)
(*   flags    the flags map built by main                                  *)
(*   files    the files under the serving directory                        *)
(*   conn     per connection: "none" (not accepted), "open" (its goroutine *)
(*            is in the loop of HandleConnection) or "closed" (the         *)
(*            goroutine returned and closed it)                            *)
(*   peer     per connection, the client's end: "open", "closed", "reset"  *)
(*   inbuf    per connection, the bytes sent and not yet read              *)
(*   reqs     per connection, the requests whose line and headers parsed   *)
(*   out      per connection, the responses written                        *)
(*   last     per connection, how the latest NewConnHandler call ended     *)
(*   retried  per connection, the errors after which NewConnHandler was    *)
(*            called again                                                 *)
(*   sent     the number of messages clients have sent                     *)
(*   call     used only when single operations are examined on their own   *)
(*            (SpecUnits below): the operation applied, its arguments and  *)
(*            what it returned; NoCall while the server is modelled        *)
(***************************************************************************)
VARIABLES proc, cause, flags, files, conn, peer, inbuf, reqs, out, last,
          retried, sent, call

vars == <<proc, cause, flags, files, conn, peer, inbuf, reqs, out, last,
          retried, sent, call>>

NoCall == [op |-> "none"]

Init ==
    /\ proc = "init"
    /\ cause = ""
    /\ flags \in [directory : Directories]
    /\ files = InitFiles
    /\ conn = [c \in Conns |-> "none"]
    /\ peer = [c \in Conns |-> "open"]
    /\ inbuf = [c \in Conns |-> << >>]
    /\ reqs = [c \in Conns |-> << >>]
    /\ out = [c \in Conns |-> << >>]
    /\ last = [c \in Conns |-> [err |-> "none", at |-> "none"]]
    /\ retried = [c \in Conns |-> {}]
    /\ sent = 0
    /\ call = NoCall

\* main: net.Listen succeeds, or fails and the process exits.
Listen ==
    /\ proc = "init"
    /\ \E bound \in BOOLEAN :
         IF bound
         THEN proc' = "running" /\ cause' = cause
         ELSE proc' = "exited" /\ cause' = "bind"
    /\ UNCHANGED <<flags, files, conn, peer, inbuf, reqs, out, last, retried, sent,
                   call>>

\* main: l.Accept returns a connection and its goroutine starts.
Accept(c) ==
    /\ proc = "running"
    /\ conn[c] = "none"
    /\ conn' = [conn EXCEPT ![c] = "open"]
    /\ UNCHANGED <<proc, cause, flags, files, peer, inbuf, reqs, out, last,
                   retried, sent, call>>

\* The client of connection c sends the bytes of one message.  (Clients act
\* while the process runs: when it ends, its sockets are gone.)
ClientSend(c, m) ==
    /\ proc = "running"
    /\ conn[c] = "open"
    /\ peer[c] = "open"
    /\ sent < MaxMsgs
    /\ inbuf' = [inbuf EXCEPT ![c] = @ \o m]
    /\ sent' = sent + 1
    /\ UNCHANGED <<proc, cause, flags, files, conn, peer, reqs, out, last, retried,
                   call>>

\* The client shuts its end of the stream: reads past the buffered bytes
\* yield io.EOF.
ClientClose(c) ==
    /\ proc = "running"
    /\ conn[c] = "open"
    /\ peer[c] = "open"
    /\ peer' = [peer EXCEPT ![c] = "closed"]
    /\ UNCHANGED <<proc, cause, flags, files, conn, inbuf, reqs, out, last,
                   retried, sent, call>>

\* The client resets the connection: reads past the buffered bytes yield an
\* error that is not io.EOF.
ClientReset(c) ==
    /\ proc = "running"
    /\ conn[c] = "open"
    /\ peer[c] = "open"
    /\ peer' = [peer EXCEPT ![c] = "reset"]
    /\ UNCHANGED <<proc, cause, flags, files, conn, inbuf, reqs, out, last,
                   retried, sent, call>>

(***************************************************************************)
(* One iteration of the loop of HandleConnection on connection c.          *)
(***************************************************************************)
\* The handler r.c was returned: b is what the rest of the loop body does.
Dispatched(c, r, b) ==
    /\ b.o.exit # "block"
    /\ reqs' = [reqs EXCEPT ![c] = Append(@, r.c.req)]
    /\ out' = [out EXCEPT ![c] = @ \o b.o.out]
    /\ inbuf' = [inbuf EXCEPT ![c] = b.o.rest]
    /\ files' = b.o.files
    /\ IF b.o.panic
       THEN proc' = "panicked" /\ cause' = "makeslice" /\ conn' = conn
       ELSE IF b.o.exit # ""
       THEN proc' = "exited" /\ cause' = b.o.exit /\ conn' = conn
       ELSE /\ UNCHANGED <<proc, cause>>
            /\ conn' = [conn EXCEPT ![c] = IF b.ret THEN "closed" ELSE "open"]

\* r is what NewConnHandler returned.
Iteration(c, r) ==
    /\ r.err # "block"
    /\ last' = [last EXCEPT ![c] = [err |-> r.err, at |-> r.at]]
    /\ retried' = [retried EXCEPT ![c] =
                      IF last[c].err \in {"none", "nil"} THEN @
                      ELSE @ \cup {last[c].err}]
    /\ IF r.err = "EOF"
       THEN \* return, and the deferred conn.Close()
            /\ conn' = [conn EXCEPT ![c] = "closed"]
            /\ inbuf' = [inbuf EXCEPT ![c] = r.rest]
            /\ UNCHANGED <<proc, cause, files, reqs, out>>
       ELSE IF r.err # "nil"
       THEN \* continue
            /\ inbuf' = [inbuf EXCEPT ![c] = r.rest]
            /\ UNCHANGED <<proc, cause, files, conn, reqs, out>>
       ELSE IF r.panic
       THEN \* the goroutine panics and the runtime ends the process
            /\ proc' = "panicked"
            /\ cause' = "nil-deref"
            /\ inbuf' = [inbuf EXCEPT ![c] = r.rest]
            /\ reqs' = [reqs EXCEPT ![c] = Append(@, r.c.req)]
            /\ UNCHANGED <<files, conn, out>>
       ELSE \E in \in Inputs :
              Dispatched(c, r, LoopBody(r.c, r.rest, peer[c], flags,
                                        ExistingDirs, files, in))

HandleConnection(c) ==
    /\ proc = "running"
    /\ conn[c] = "open"
    /\ Iteration(c, NewConnHandler(inbuf[c], peer[c]))
    /\ UNCHANGED <<flags, peer, sent, call>>

Next ==
    \/ Listen
    \/ \E c \in Conns : Accept(c)
    \/ \E c \in Conns, m \in Messages : ClientSend(c, m)
    \/ \E c \in Conns : ClientClose(c)
    \/ \E c \in Conns : ClientReset(c)
    \/ \E c \in Conns : HandleConnection(c)

Spec == Init /\ [][Next]_vars

(***************************************************************************)
(* The same program with one change, used to examine the code behind       *)
(* NewConnHandler's fault: the handler is built with its response          *)
(* allocated (resp: &Response{}), so that NewConnHandler returns and the   *)
(* rest of the loop body runs.  Nothing else differs from Spec.            *)
(***************************************************************************)
NewConnHandlerAllocated(buf, peerEnd) ==
    AfterReqLine([req |-> NoRequest, resp |-> ZeroResponse],
                 readReqLine(buf, peerEnd), peerEnd)

HandleConnectionAllocated(c) ==
    /\ proc = "running"
    /\ conn[c] = "open"
    /\ Iteration(c, NewConnHandlerAllocated(inbuf[c], peer[c]))
    /\ UNCHANGED <<flags, peer, sent, call>>

NextAllocated ==
    \/ Listen
    \/ \E c \in Conns : Accept(c)
    \/ \E c \in Conns, m \in Messages : ClientSend(c, m)
    \/ \E c \in Conns : ClientClose(c)
    \/ \E c \in Conns : ClientReset(c)
    \/ \E c \in Conns : HandleConnectionAllocated(c)

SpecAllocated == Init /\ [][NextAllocated]_vars

(***************************************************************************)
(* Vocabulary of the properties.  reqs[c][i] is the i-th request of        *)
(* connection c whose line and headers parsed, and out[c][i] the i-th      *)
(* response written on it.                                                 *)
(***************************************************************************)
Answered(c, i) == Len(out[c]) >= i

FramingError(l) ==
    \/ l.err \in {"invalid request line", "invalid header"}
    \/ l.err = "EOF" /\ l.at = "headers"

\* The stream of c has ended and holds no complete line: the read of the
\* request line that the handler is waiting in ends with io.EOF.
PeerClosedAwaitingLine(c) ==
    /\ proc = "running"
    /\ conn[c] = "open"
    /\ peer[c] = "closed"
    /\ IndexOf(inbuf[c], CRLF) = 0

\* The goroutine of c took a step.
Stepped(c) ==
    <<conn[c], last[c], inbuf[c], out[c], reqs[c]>>'
        # <<conn[c], last[c], inbuf[c], out[c], reqs[c]>>

(***************************************************************************)
(* C1.  On one connection, every well-formed request without               *)
(* `Connection: close` is answered and the loop returns to awaiting a      *)
(* request on the same stream: the k-th such request has the k-th          *)
(* response, the process runs on and the connection is still open.         *)
(***************************************************************************)
C1_SequentialRequestsAnswered ==
    \A c \in Conns :
        (Len(reqs[c]) > 0 /\ \A i \in 1..Len(reqs[c]) : ~WantsClose(reqs[c][i]))
            => /\ Len(out[c]) = Len(reqs[c])
               /\ proc = "running"
               /\ conn[c] = "open"

(***************************************************************************)
(* C2.  A request carrying `Connection: close` has a response carrying     *)
(* `Connection: close`, the connection is closed after that response, and  *)
(* no later request is read from the connection.                           *)
(***************************************************************************)
C2_ConnectionCloseHonoured ==
    \A c \in Conns : \A i \in 1..Len(reqs[c]) :
        WantsClose(reqs[c][i])
            => /\ Answered(c, i)
               /\ HasKey(out[c][i].Headers, s_Connection)
               /\ out[c][i].Headers[s_Connection] = s_close
               /\ conn[c] = "closed"
               /\ i = Len(reqs[c])

(***************************************************************************)
(* C3.  A framing error (a request line without exactly three tokens, a    *)
(* header line without a colon, end of stream before the blank line) is    *)
(* fatal to the connection: HandleConnection closes it, and no further     *)
(* bytes are read from it as a new request.                                *)
(***************************************************************************)
C3_FramingErrorClosesConnection ==
    \A c \in Conns :
        /\ FramingError(last[c]) => conn[c] = "closed"
        /\ retried[c] \cap {"invalid request line", "invalid header"} = {}

(***************************************************************************)
(* C4.  When a transport read fails with an error other than end of        *)
(* stream while a request is read, HandleConnection returns and closes     *)
(* the connection instead of attempting further reads on it.               *)
(***************************************************************************)
C4_ReadErrorEndsConnection ==
    \A c \in Conns :
        /\ last[c].err = "reset" => conn[c] = "closed"
        /\ "reset" \notin retried[c]

(***************************************************************************)
(* C5.  When the peer closes the stream while the handler is awaiting a    *)
(* request line, the step HandleConnection takes is a normal close: it     *)
(* writes no response, reports end of stream (not an error that is         *)
(* retried or that ends the process), touches no file and closes the       *)
(* connection.                                                             *)
(***************************************************************************)
C5_EOFAwaitingRequestIsNormalClose ==
    [][\A c \in Conns :
          (PeerClosedAwaitingLine(c) /\ Stepped(c))
              => /\ conn'[c] = "closed"
                 /\ out'[c] = out[c]
                 /\ reqs'[c] = reqs[c]
                 /\ last'[c] = [err |-> "EOF", at |-> "line"]
                 /\ proc' = "running"
                 /\ files' = files]_vars

\* A connection that HandleConnection closed on end of stream at the request
\* line, with nothing written and the process running on.
C5_Witness ==
    \E c \in Conns :
        /\ conn[c] = "closed"
        /\ last[c] = [err |-> "EOF", at |-> "line"]
        /\ out[c] = << >>
        /\ proc = "running"

(***************************************************************************)
(* C6.  Only a failure to bind the listening port ends the process: no     *)
(* event on a connection does.                                             *)
(***************************************************************************)
C6_OnlyBindFailureEndsProcess ==
    proc \in {"exited", "panicked"} => cause = "bind"

(***************************************************************************)
(* C7.  For every request whose line and headers parse, exactly one        *)
(* response is written before the next request is read or the connection   *)
(* is closed.                                                              *)
(***************************************************************************)
C7_OneResponsePerParsedRequest ==
    \A c \in Conns : Len(out[c]) = Len(reqs[c])

(***************************************************************************)
(* C8.  After an error response (400 for an empty filename, 404 for an     *)
(* absent file, 500 for a misconfigured directory) the connection stays    *)
(* open and the loop awaits the next request, unless the request carried   *)
(* `Connection: close`.                                                    *)
(***************************************************************************)
ErrorRequest(req) ==
    /\ req.RequestTarget # s_Root
    /\ req.RequestTarget # s_UserAgentPath
    /\ ~EchoEndpointRegxMatch(req.RequestTarget)
    /\ \/ ~FileEndpointRegxMatch(req.RequestTarget)
       \/ isDirExists(flags, ExistingDirs) = << >>
       \/ RegxSubmatch(s_FilesPrefix, req.RequestTarget) = << >>
       \/ /\ req.HTTPMethod = s_GET
          /\ ~HasKey(InitFiles, PathOf(isDirExists(flags, ExistingDirs),
                                       RegxSubmatch(s_FilesPrefix, req.RequestTarget)))

C8_ErrorResponseKeepsConnectionOpen ==
    \A c \in Conns : \A i \in 1..Len(reqs[c]) :
        (ErrorRequest(reqs[c][i]) /\ ~WantsClose(reqs[c][i]))
            => /\ Answered(c, i)
               /\ out[c][i].StatusCode \in {400, 404, 500}
               /\ conn[c] = "open"
               /\ proc = "running"

(***************************************************************************)
(* C9.  GET /user-agent with a User-Agent header is answered 200 with      *)
(* Content-Type text/plain, the header's value as body and its length as   *)
(* Content-Length; without the header it is answered with a 400-class      *)
(* response.                                                               *)
(***************************************************************************)
C9_UserAgentAnswered ==
    \A c \in Conns : \A i \in 1..Len(reqs[c]) :
        (reqs[c][i].HTTPMethod = s_GET /\ reqs[c][i].RequestTarget = s_UserAgentPath)
            => /\ Answered(c, i)
               /\ IF HasKey(reqs[c][i].Headers, s_UserAgent)
                  THEN /\ out[c][i].StatusCode = 200
                       /\ HasKey(out[c][i].Headers, s_ContentType)
                       /\ out[c][i].Headers[s_ContentType] = s_TextPlain
                       /\ out[c][i].Body = reqs[c][i].Headers[s_UserAgent]
                       /\ HasKey(out[c][i].Headers, s_ContentLength)
                       /\ out[c][i].Headers[s_ContentLength]
                              = Itoa(Len(reqs[c][i].Headers[s_UserAgent]))
                  ELSE out[c][i].StatusCode \in 400..499

(***************************************************************************)
(* C10.  A request whose target is /files/ (empty filename) is answered    *)
(* 400, for every method and whether or not a serving directory is         *)
(* configured.                                                             *)
(***************************************************************************)
C10_EmptyFilenameIs400 ==
    \A c \in Conns : \A i \in 1..Len(reqs[c]) :
        reqs[c][i].RequestTarget = s_FilesPrefix
            => /\ Answered(c, i)
               /\ out[c][i].StatusCode = 400

(***************************************************************************)
(* C11.  While the serving directory is unset or does not exist, every     *)
(* request to /files/<name> with a non-empty name is answered 500,         *)
(* whatever its method, no file is read or written, and requests to /,     *)
(* /user-agent and /echo/... are still answered 200.                       *)
(***************************************************************************)
NamedFileRequest(req) ==
    /\ Len(req.RequestTarget) > Len(s_FilesPrefix)
    /\ SubSeq(req.RequestTarget, 1, Len(s_FilesPrefix)) = s_FilesPrefix

OtherRouteRequest(req) ==
    \/ req.RequestTarget = s_Root
    \/ req.RequestTarget = s_UserAgentPath /\ HasKey(req.Headers, s_UserAgent)
    \/ /\ Len(req.RequestTarget) >= Len(s_EchoPrefix)
       /\ SubSeq(req.RequestTarget, 1, Len(s_EchoPrefix)) = s_EchoPrefix

C11_NoDirectoryIs500 ==
    isDirExists(flags, ExistingDirs) = << >>
        => /\ files = InitFiles
           /\ \A c \in Conns : \A i \in 1..Len(reqs[c]) :
                 /\ NamedFileRequest(reqs[c][i])
                       => Answered(c, i) /\ out[c][i].StatusCode = 500
                 /\ OtherRouteRequest(reqs[c][i])
                       => Answered(c, i) /\ out[c][i].StatusCode = 200

(***************************************************************************)
(* C12.  Dispatch takes the first rule that matches, in the order /,       *)
(* /user-agent, /echo/<value>, /files/<name>, default: a request to / is   *)
(* answered by the first rule (200, empty body) and a request that none    *)
(* of the four rules matches is answered 404 with an empty body, whatever  *)
(* its method.                                                             *)
(***************************************************************************)
Unmatched(req) ==
    /\ req.RequestTarget # s_Root
    /\ req.RequestTarget # s_UserAgentPath
    /\ ~EchoEndpointRegxMatch(req.RequestTarget)
    /\ ~FileEndpointRegxMatch(req.RequestTarget)

C12_FirstMatchWinsDefault404 ==
    \A c \in Conns : \A i \in 1..Len(reqs[c]) :
        /\ reqs[c][i].RequestTarget = s_Root
              => /\ Answered(c, i)
                 /\ out[c][i].StatusCode = 200
                 /\ out[c][i].Body = << >>
        /\ Unmatched(reqs[c][i])
              => /\ Answered(c, i)
                 /\ out[c][i].StatusCode = 404
                 /\ out[c][i].Body = << >>

(***************************************************************************)
(* Single operations, examined on their own.  SpecUnits applies one        *)
(* operation of the program to arguments drawn from bounded sets and       *)
(* records in call the operation, its arguments and what it returned.      *)
(* The variables of the server keep their initial values.                  *)
(***************************************************************************)
MaxBody == 2

Bytes == {"a", "b"}

\* The byte strings of at most n bytes.
StringsUpTo(n) == UNION {[1..k -> Bytes] : k \in 0..n}

Streams == StringsUpTo(MaxBody)

PeerEnds == {"open", "closed", "reset"}

\* Values of a Content-Length header: the lengths up to MaxBody, and values
\* that are not lengths.
LengthValues ==
    {Itoa(n) : n \in 0..MaxBody} \cup {<<"-", "1">>, <<"x">>, << >>}

\* The request headers of a request with a body: none, or a Content-Length.
BodyHeaders ==
    {EmptyMap} \cup {MapPut(EmptyMap, s_ContentLength, v) : v \in LengthValues}

\* A handler after its request was read, as NewConnHandler has it.
HandlerOf(method, target, headers) ==
    [NewHandlerValue EXCEPT
        !.req = [HTTPMethod |-> method, RequestTarget |-> target,
                 HTTPVersion |-> s_HTTP11, Headers |-> headers]]

\* The same with its response allocated, as Status, Header and Body need it.
HandlerWithResponse(method, target, headers) ==
    [HandlerOf(method, target, headers) EXCEPT !.resp = ZeroResponse]

server == <<proc, cause, flags, files, conn, peer, inbuf, reqs, out, last,
            retried, sent>>

Called(op, in, res) ==
    /\ call' = [op |-> op, in |-> in, res |-> res]
    /\ UNCHANGED server

\* c.ReadRequestBody() on a stream holding buf, whose one Read delivers at
\* most nread bytes.
CallReadRequestBody ==
    /\ call = NoCall
    /\ \E h \in BodyHeaders, buf \in Streams, p \in PeerEnds, n \in 1..MaxRead :
        /\ ReadRequestBody(HandlerOf(s_POST, s_FilesX, h), buf, p, n).err # "block"
        /\ Called("ReadRequestBody",
                  [headers |-> h, buf |-> buf, peer |-> p, nread |-> n],
                  ReadRequestBody(HandlerOf(s_POST, s_FilesX, h), buf, p, n))

\* What the environment does during a GET.
GetInputs == [wok : BOOLEAN, io : IOs]

\* What the GET of /files/x returns after the POST of it returned save.
GetAfterSave(save, in) ==
    GetFileHandler(HandlerWithResponse(s_GET, s_FilesX, EmptyMap), DirData, <<"x">>,
                   in.wok, save.rest, save.files, in.io)

SavedThenGot(save, in) == [save |-> save, get |-> GetAfterSave(save, in)]

\* SaveFileHandler for POST /files/x on a stream holding buf, then
\* GetFileHandler for GET /files/x.
CallSaveThenGet ==
    /\ call = NoCall
    /\ \E h \in BodyHeaders, buf \in Streams, p \in PeerEnds, in1 \in Inputs,
          in2 \in GetInputs :
        /\ SaveFileHandler(HandlerWithResponse(s_POST, s_FilesX, h), DirData, <<"x">>,
                           in1.wok, buf, p, in1.nread, InitFiles, in1.io).exit # "block"
        /\ Called("SaveThenGet",
                  [headers |-> h, buf |-> buf, peer |-> p, post |-> in1, get |-> in2],
                  SavedThenGot(
                      SaveFileHandler(HandlerWithResponse(s_POST, s_FilesX, h), DirData,
                                      <<"x">>, in1.wok, buf, p, in1.nread, InitFiles,
                                      in1.io),
                      in2))

(***************************************************************************)
(* Two goroutines, each in the os.WriteFile of SaveFileHandler for the     *)
(* same path, with the bodies data[1] and data[2] read from their          *)
(* requests.  Nothing orders the system calls of one against those of the  *)
(* other; pc[w] is "start", "opened" (the file is open and truncated) or   *)
(* "done" (the data is written, the file closed and 201 answered).         *)
(***************************************************************************)
Writers == {1, 2}

PathX == PathOf(DirData, <<"x">>)

StartWriters ==
    /\ call = NoCall
    /\ \E b1 \in Streams, b2 \in Streams :
          Called("WriteFile", [data |-> <<b1, b2>>],
                 [pc |-> <<"start", "start">>, files |-> InitFiles])

WriterStep(w, from, to, filesAfter) ==
    /\ call.op = "WriteFile"
    /\ call.res.pc[w] = from
    /\ Called("WriteFile", call.in,
              [pc |-> [call.res.pc EXCEPT ![w] = to], files |-> filesAfter])

WriterOpen(w) ==
    /\ call.op = "WriteFile"
    /\ WriterStep(w, "start", "opened", OpenTrunc(call.res.files, PathX))

WriterWrite(w) ==
    /\ call.op = "WriteFile"
    /\ WriterStep(w, "opened", "done",
                  WriteAtStart(call.res.files, PathX, call.in.data[w]))

(***************************************************************************)
(* The body of the loop of HandleConnection applied to a handler whose     *)
(* request was read from the bytes of one message and whose response is    *)
(* allocated.  wire holds the bytes that Body may have written, one        *)
(* element for each order of the header lines.                             *)
(***************************************************************************)
s_EchoEmpty == s_EchoPrefix
s_EchoEscaped == s_EchoPrefix \o <<"a", "%", "2", "0", "b">>

EchoTargets == {s_EchoAb, s_EchoEmpty, s_EchoEscaped}

s_accept_encoding ==
    <<"a", "c", "c", "e", "p", "t", "-", "e", "n", "c", "o", "d", "i", "n", "g">>

\* Values of Accept-Encoding whose comma-separated tokens, trimmed, include
\* gzip, and values whose tokens do not.
GzipAccepting ==
    {s_gzip,
     <<"b", "r", ",", " ">> \o s_gzip,
     s_gzip \o <<",", "b", "r">>,
     <<"b", "r", " ", ",", "\t">> \o s_gzip \o <<" ", ",", "x">>}

NotGzipAccepting ==
    {<<"b", "r">>,
     s_gzip \o <<"x">>,
     <<"x", "-">> \o s_gzip,
     <<"G", "Z", "I", "P">>,
     s_gzip \o <<";", "q", "=", "1">>,
     <<"*">>,
     <<"g", "z", ",", "i", "p">>}

EchoMessages ==
    {ReqLineBytes(s_GET, t) \o CRLF : t \in EchoTargets}
        \cup {ReqLineBytes(s_GET, t) \o HeaderBytes(s_AcceptEncoding, v) \o CRLF :
                 t \in EchoTargets, v \in GzipAccepting \cup NotGzipAccepting}

s_connection == <<"c", "o", "n", "n", "e", "c", "t", "i", "o", "n">>

\* Requests whose header names differ in case from the names looked up.
CaseMessages ==
    {ReqLineBytes(s_GET, s_Root) \o HeaderBytes(s_connection, s_close) \o CRLF,
     ReqLineBytes(s_GET, s_EchoAb) \o HeaderBytes(s_accept_encoding, s_gzip) \o CRLF}

\* Requests with a body of two bytes, followed on the stream by another
\* request.
BodyMessages ==
    {ReqLineBytes(s_POST, t) \o HeaderBytes(s_ContentLength, <<"2">>) \o CRLF
         \o <<"h", "i">> \o MsgRoot :
       t \in {s_Root, s_UserAgentPath, s_EchoAb, s_FilesX, s_FilesA, s_Nope}}
        \cup {ReqLineBytes(s_GET, s_FilesA) \o HeaderBytes(s_ContentLength, <<"2">>)
                 \o CRLF \o <<"h", "i">> \o MsgRoot}

\* Requests whose target holds /echo/ or /files/ after other bytes.
s_InnerEcho == <<"/", "x">> \o s_EchoAb
s_InnerFiles == <<"/", "x">> \o s_FilesA

InnerMessages ==
    {ReqLineBytes(s_GET, t) \o CRLF : t \in {s_InnerEcho, s_InnerFiles, s_Nope}}

\* What NewConnHandler read from each message, for the messages that parse.
Parsed(messages) ==
    {r \in {NewConnHandler(m, "closed") : m \in messages} : r.err = "nil"}

WiresOf(written) ==
    UNION {{Serialize(written[i], order) :
                order \in Orders(DOMAIN written[i].Headers)} :
             i \in 1..Len(written)}

Handled(b) == [o |-> b.o, ret |-> b.ret, wire |-> WiresOf(b.o.out)]

CallHandle ==
    /\ call = NoCall
    /\ \E r \in Parsed(Messages \cup EchoMessages \cup CaseMessages
                         \cup BodyMessages \cup InnerMessages),
          d \in Directories,
          in \in Inputs :
          Called("Handle",
                 [req |-> r.c.req, rest |-> r.rest, dir |-> d, env |-> in],
                 Handled(LoopBody([r.c EXCEPT !.resp = ZeroResponse], r.rest,
                                  "closed", [directory |-> d], ExistingDirs,
                                  InitFiles, in)))

(***************************************************************************)
(* readReqHeaders applied to a stream holding header lines, the blank      *)
(* line and the bytes that follow it.                                      *)
(***************************************************************************)
MaxLine == 3

LineBytes == {"a", "A", ":", " "}

\* The non-empty lines of at most MaxLine bytes.
TestLines == UNION {[1..k -> LineBytes] : k \in 1..MaxLine}

\* No header line, one, or two.
HeaderBlocks ==
    {<< >>} \cup {<<l>> : l \in TestLines}
        \cup {<<l1, l2>> : l1 \in TestLines, l2 \in TestLines}

RECURSIVE BlockBytes(_)
BlockBytes(lines) ==
    IF Len(lines) = 0 THEN << >>
    ELSE lines[1] \o CRLF \o BlockBytes(Tail(lines))

CallReadReqHeaders ==
    /\ call = NoCall
    /\ \E lines \in HeaderBlocks, tail \in {<< >>, <<"a", ":">>} :
          Called("readReqHeaders", [lines |-> lines, tail |-> tail],
                 readReqHeaders(BlockBytes(lines) \o CRLF \o tail, "open"))

(***************************************************************************)
(* readReqLine applied to a stream holding one line, its CRLF and the      *)
(* bytes that follow.                                                      *)
(***************************************************************************)
MaxReqLine == 5

ReqLineAlphabet == {"a", " "}

\* The lines of at most MaxReqLine bytes, the empty one included.
TestReqLines == UNION {[1..k -> ReqLineAlphabet] : k \in 0..MaxReqLine}

CallReadReqLine ==
    /\ call = NoCall
    /\ \E line \in TestReqLines, tail \in {<< >>, <<"a", " ">>} :
          Called("readReqLine", [line |-> line, tail |-> tail],
                 readReqLine(line \o CRLF \o tail, "open"))

(***************************************************************************)
(* NewConnHandler applied to a stream holding one message, the peer        *)
(* having closed its end after it.                                         *)
(***************************************************************************)
CallNewConnHandler ==
    /\ call = NoCall
    /\ \E m \in Messages \cup EchoMessages \cup CaseMessages :
          Called("NewConnHandler", [stream |-> m], NewConnHandler(m, "closed"))

(***************************************************************************)
(* Two turns of the loop of HandleConnection, each on the handler that     *)
(* NewConnHandler builds for it (response allocated).  The stream holds    *)
(* two messages; when the first turn returns, the connection is closed     *)
(* and the second message is handled on another connection.                *)
(***************************************************************************)
PairMessages ==
    {MsgRoot, MsgRootClose, MsgUserAgent, MsgEcho, MsgEchoGzip, MsgNopePost,
     MsgFilesGetA, MsgFilesGetX, MsgFilesEmptyGet}

Exchange(req, b) == [parsed |-> TRUE, req |-> req, o |-> b.o, ret |-> b.ret]

NoExchange(rest, fs) ==
    [parsed |-> FALSE, req |-> NoRequest,
     o |-> Outcome(<< >>, "", FALSE, rest, fs), ret |-> TRUE]

\* One turn, r being what NewConnHandler returned.
TurnOn(r, d, fs, in) ==
    IF r.err # "nil" THEN NoExchange(r.rest, fs)
    ELSE Exchange(r.c.req,
                  LoopBody([r.c EXCEPT !.resp = ZeroResponse], r.rest, "closed",
                           [directory |-> d], ExistingDirs, fs, in))

Turn(stream, d, fs, in) == TurnOn(NewConnHandler(stream, "closed"), d, fs, in)

\* The second turn, e1 being the first.
TurnAfter(e1, m2, d, in) ==
    IF e1.o.exit # "" \/ e1.o.panic THEN NoExchange(e1.o.rest, e1.o.files)
    ELSE Turn(IF e1.ret THEN m2 ELSE e1.o.rest, d, e1.o.files, in)

TwoTurns(e1, m2, d, in) == [first |-> e1, second |-> TurnAfter(e1, m2, d, in)]

CallHandleTwo ==
    /\ call = NoCall
    /\ \E m1 \in PairMessages, m2 \in PairMessages, d \in Directories,
          in \in Inputs :
          Called("HandleTwo", [first |-> m1, second |-> m2, dir |-> d, env |-> in],
                 TwoTurns(Turn(m1 \o m2, d, InitFiles, in), m2, d, in))

NextUnits ==
    \/ CallHandleTwo
    \/ CallNewConnHandler
    \/ CallHandle
    \/ CallReadReqLine
    \/ CallReadReqHeaders
    \/ CallReadRequestBody
    \/ CallSaveThenGet
    \/ StartWriters
    \/ \E w \in Writers : WriterOpen(w)
    \/ \E w \in Writers : WriterWrite(w)

\* One operation is applied in a run, the serving directory being set.
InitUnits == Init /\ flags.directory = DirData

SpecUnits == InitUnits /\ [][NextUnits]_vars

(***************************************************************************)
(* C13.  Round trip: a POST of bytes B with Content-Length |B| to          *)
(* /files/x that is answered 201, followed by a GET of /files/x, is        *)
(* answered 200 with body exactly B and Content-Length |B| (the response   *)
(* can be written and the file can be read).                               *)
(***************************************************************************)
DeclaresLength(headers, n) ==
    /\ HasKey(headers, s_ContentLength)
    /\ headers[s_ContentLength] = Itoa(n)

AnsweredWith(o, code) == Len(o.out) = 1 /\ o.out[1].StatusCode = code

C13_PostThenGetRoundTrip ==
    ( /\ call.op = "SaveThenGet"
      /\ DeclaresLength(call.in.headers, Len(call.in.buf))
      /\ AnsweredWith(call.res.save, 201)
      /\ call.in.get.wok
      /\ call.in.get.io = "ok" )
        => /\ AnsweredWith(call.res.get, 200)
           /\ call.res.get.out[1].Body = call.in.buf
           /\ DeclaresLength(call.res.get.out[1].Headers, Len(call.in.buf))

(***************************************************************************)
(* C14.  ReadRequestBody, given Content-Length: n, consumes exactly n      *)
(* bytes of the stream and returns exactly those bytes, however many of    *)
(* them one read delivers; if the stream ends cleanly with fewer than n    *)
(* bytes it returns only the bytes read; if the stream fails with another  *)
(* error before any byte, that error is returned.                          *)
(***************************************************************************)
DeclaredLength(headers) == Atoi(headers[s_ContentLength]).val

DeclaresSomeLength(headers) ==
    /\ HasKey(headers, s_ContentLength)
    /\ Atoi(headers[s_ContentLength]).ok
    /\ Atoi(headers[s_ContentLength]).val >= 0

C14_ReadRequestBodyExactLength ==
    (call.op = "ReadRequestBody" /\ DeclaresSomeLength(call.in.headers))
        => IF Len(call.in.buf) >= DeclaredLength(call.in.headers)
           THEN /\ call.res.err = "nil"
                /\ call.res.data
                     = SubSeq(call.in.buf, 1, DeclaredLength(call.in.headers))
                /\ call.res.rest
                     = SubSeq(call.in.buf, DeclaredLength(call.in.headers) + 1,
                              Len(call.in.buf))
           ELSE IF call.in.peer = "closed"
           THEN call.res.err = "nil" /\ call.res.data = call.in.buf
           ELSE IF call.in.peer = "reset" /\ call.in.buf = << >>
           THEN call.res.err = "reset"
           ELSE TRUE

(***************************************************************************)
(* C15.  ReadRequestBody returns an error when Content-Length is absent    *)
(* or is not a non-negative integer, and SaveFileHandler then answers      *)
(* with an error response (500) and leaves the files as they were.         *)
(***************************************************************************)
C15_BadContentLengthIsError ==
    /\ (call.op = "ReadRequestBody" /\ ~DeclaresSomeLength(call.in.headers))
          => /\ ~call.res.panic
             /\ call.res.err \notin {"nil", "block"}
    /\ ( /\ call.op = "SaveThenGet"
         /\ ~DeclaresSomeLength(call.in.headers)
         /\ call.in.post.wok )
          => /\ ~call.res.save.panic
             /\ AnsweredWith(call.res.save, 500)
             /\ call.res.save.files = InitFiles

(***************************************************************************)
(* C16.  When two connections write bodies B1 and B2 to the same file      *)
(* concurrently and both writes have completed (both are answered 201),    *)
(* the file holds exactly B1 or exactly B2, never a mixture.               *)
(***************************************************************************)
C16_ConcurrentWritesLastWins ==
    ( /\ call.op = "WriteFile"
      /\ \A w \in Writers : call.res.pc[w] = "done" )
        => call.res.files[PathX] \in {call.in.data[1], call.in.data[2]}

(***************************************************************************)
(* C17.  The bytes of every response, read as a client reads them: the     *)
(* first line is HTTP/1.1, a status code and its text; every following     *)
(* line up to the blank line is name: value; what follows the blank line   *)
(* is the body.  A declared Content-Length equals the number of body       *)
(* bytes, and a response with a non-empty body declares Content-Length.    *)
(***************************************************************************)
StatusLines ==
    {s_HTTP11 \o <<" ", "2", "0", "0", " ">> \o s_OK,
     s_HTTP11 \o <<" ", "2", "0", "1", " ">> \o s_Created,
     s_HTTP11 \o <<" ", "4", "0", "0", " ">> \o s_BadRequest,
     s_HTTP11 \o <<" ", "4", "0", "4", " ">> \o s_NotFound,
     s_HTTP11 \o <<" ", "5", "0", "0", " ">> \o s_InternalServerError}

\* The lines of w before its blank line, and its bytes after it.
HeadOf(w) == Split(SubSeq(w, 1, IndexOf(w, CRLF \o CRLF) - 1), CRLF)

BodyOf(w) == SubSeq(w, IndexOf(w, CRLF \o CRLF) + 4, Len(w))

NameOf(line) == SubSeq(line, 1, IndexOf(line, <<":", " ">>) - 1)

ValueOf(line) == SubSeq(line, IndexOf(line, <<":", " ">>) + 2, Len(line))

WellFormedResponse(w) ==
    /\ IndexOf(w, CRLF \o CRLF) > 0
    /\ HeadOf(w)[1] \in StatusLines
    /\ \A i \in 2..Len(HeadOf(w)) :
          /\ IndexOf(HeadOf(w)[i], <<":", " ">>) > 1
          /\ NameOf(HeadOf(w)[i]) = s_ContentLength
                => /\ \A k \in 1..Len(ValueOf(HeadOf(w)[i])) :
                         IsDigit(ValueOf(HeadOf(w)[i])[k])
                   /\ DigitsVal(ValueOf(HeadOf(w)[i])) = Len(BodyOf(w))
    /\ Len(BodyOf(w)) > 0
          => \E i \in 2..Len(HeadOf(w)) : NameOf(HeadOf(w)[i]) = s_ContentLength

EchoRequest(req) ==
    /\ Len(req.RequestTarget) >= Len(s_EchoPrefix)
    /\ SubSeq(req.RequestTarget, 1, Len(s_EchoPrefix)) = s_EchoPrefix

EchoValue(req) ==
    SubSeq(req.RequestTarget, Len(s_EchoPrefix) + 1, Len(req.RequestTarget))

NegotiatesGzip(req) ==
    /\ HasKey(req.Headers, s_AcceptEncoding)
    /\ req.Headers[s_AcceptEncoding] \in GzipAccepting

DeclinesGzip(req) ==
    \/ ~HasKey(req.Headers, s_AcceptEncoding)
    \/ req.Headers[s_AcceptEncoding] \in NotGzipAccepting

CompressedEcho(r, v) ==
    /\ HasKey(r.Headers, s_ContentEncoding)
    /\ r.Headers[s_ContentEncoding] = s_gzip
    /\ r.Body # v
    /\ Gunzip(r.Body) = v
    /\ HasKey(r.Headers, s_ContentLength)
    /\ r.Headers[s_ContentLength] = Itoa(Len(r.Body))

PlainEcho(r, v) ==
    /\ ~HasKey(r.Headers, s_ContentEncoding)
    /\ r.Body = v

C19_EchoRepeatable ==
    \A c \in Conns : \A i \in 1..Len(reqs[c]) :
        ( /\ reqs[c][i].HTTPMethod = s_GET
          /\ EchoRequest(reqs[c][i])
          /\ DeclinesGzip(reqs[c][i]) )
            => /\ Answered(c, i)
               /\ out[c][i].StatusCode = 200
               /\ HasKey(out[c][i].Headers, s_ContentType)
               /\ out[c][i].Headers[s_ContentType] = s_TextPlain
               /\ out[c][i].Body = EchoValue(reqs[c][i])
               /\ HasKey(out[c][i].Headers, s_ContentLength)
               /\ out[c][i].Headers[s_ContentLength]
                      = Itoa(Len(EchoValue(reqs[c][i])))

(***************************************************************************)
(* C20.  The header parser reads lines up to the first empty line and      *)
(* leaves what follows unread.  A line without a colon is an error.        *)
(* Otherwise each line gives name = the text before its first colon and    *)
(* value = everything after that colon, both without surrounding           *)
(* whitespace, and a later line overwrites an earlier one of the same      *)
(* name.  Names are compared byte for byte: a header whose name differs    *)
(* in case from Connection or Accept-Encoding does not act as that header. *)
(***************************************************************************)
RECURSIVE Stripped(_)
\* s without its leading and trailing whitespace.
Stripped(s) ==
    IF Len(s) = 0 THEN s
    ELSE IF IsSpace(s[1]) THEN Stripped(Tail(s))
    ELSE IF IsSpace(s[Len(s)]) THEN Stripped(SubSeq(s, 1, Len(s) - 1))
    ELSE s

HasColon(line) == \E i \in 1..Len(line) : line[i] = ":"

FirstColon(line) == MinOf({i \in 1..Len(line) : line[i] = ":"})

ExpectedName(line) == Stripped(SubSeq(line, 1, FirstColon(line) - 1))

ExpectedValue(line) == Stripped(SubSeq(line, FirstColon(line) + 1, Len(line)))

\* The last line of lines whose name is name.
LastNamed(lines, name) ==
    lines[MaxOf({i \in 1..Len(lines) : ExpectedName(lines[i]) = name})]

ExpectedHeaders(lines) ==
    [name \in {ExpectedName(lines[i]) : i \in 1..Len(lines)}
        |-> ExpectedValue(LastNamed(lines, name))]

C20_HeaderParser ==
    /\ call.op = "readReqHeaders"
          => IF \A i \in 1..Len(call.in.lines) : HasColon(call.in.lines[i])
             THEN /\ call.res.err = "nil"
                  /\ call.res.headers = ExpectedHeaders(call.in.lines)
                  /\ call.res.rest = call.in.tail
             ELSE call.res.err = "invalid header"
    /\ (call.op = "Handle" /\ HasKey(call.in.req.Headers, s_connection))
          => /\ ~call.res.ret
             /\ \A i \in 1..Len(call.res.o.out) :
                   ~HasKey(call.res.o.out[i].Headers, s_Connection)
    /\ (call.op = "Handle" /\ HasKey(call.in.req.Headers, s_accept_encoding))
          => \A i \in 1..Len(call.res.o.out) :
                PlainEcho(call.res.o.out[i], EchoValue(call.in.req))

\* Two lines of the same name, the second with a colon as its value: the
\* second value is the one stored.
C20_Witness ==
    /\ call.op = "readReqHeaders"
    /\ call.in.lines = << <<"a", ":", "A">>, <<"a", ":", ":">> >>
    /\ call.res.err = "nil"
    /\ call.res.headers = MapPut(EmptyMap, <<"a">>, <<":">>)
    /\ call.res.rest = call.in.tail

(***************************************************************************)
(* C21.  The request-line parser accepts a line exactly when the line      *)
(* holds two spaces, that is when splitting it at single spaces gives      *)
(* three tokens, and then returns the text before the first space, the     *)
(* text between the spaces and the text after the second as method,        *)
(* target and version, unchanged and unvalidated (a token may be empty).   *)
(* Every other line, the empty one included, is a parse error.             *)
(***************************************************************************)
SpacesOf(line) == {i \in 1..Len(line) : line[i] = " "}

ExpectedRequest(line) ==
    [HTTPMethod |-> SubSeq(line, 1, MinOf(SpacesOf(line)) - 1),
     RequestTarget |-> SubSeq(line, MinOf(SpacesOf(line)) + 1,
                              MaxOf(SpacesOf(line)) - 1),
     HTTPVersion |-> SubSeq(line, MaxOf(SpacesOf(line)) + 1, Len(line)),
     Headers |-> EmptyMap]

C21_RequestLineThreeTokens ==
    call.op = "readReqLine"
        => IF Cardinality(SpacesOf(call.in.line)) = 2
           THEN /\ call.res.err = "nil"
                /\ call.res.req = ExpectedRequest(call.in.line)
                /\ call.res.rest = call.in.tail
           ELSE call.res.err = "invalid request line"

\* A line of three tokens was accepted and its tokens returned.
C21_Witness ==
    /\ call.op = "readReqLine"
    /\ call.in.line = <<"a", " ", "a", " ", "a">>
    /\ call.res.err = "nil"
    /\ call.res.req.HTTPMethod = <<"a">>
    /\ call.res.req.RequestTarget = <<"a">>
    /\ call.res.req.HTTPVersion = <<"a">>

(***************************************************************************)
(* C22.  For every request whose line and headers parse, NewConnHandler    *)
(* returns, without faulting, a handler holding the request read and a     *)
(* response that is allocated, with no status and an empty header map.     *)
(***************************************************************************)
C22_NewConnHandlerInitialisesResponse ==
    (call.op = "NewConnHandler" /\ call.res.err = "nil")
        => /\ ~call.res.panic
           /\ call.res.at = "done"
           /\ call.res.c.resp = ZeroResponse

(***************************************************************************)
(* C23.  When a request has been handled and the connection stays open,    *)
(* the stream stands at the first byte after the request's complete        *)
(* message: after its headers when it declares no Content-Length, after    *)
(* the declared number of body bytes when it does, whichever route and     *)
(* method handled it.  (The next request line is read from there.)         *)
(***************************************************************************)
HandledAndOpen(res) == res.o.exit = "" /\ ~res.o.panic /\ ~res.ret

AfterBody(req, rest) ==
    IF DeclaresSomeLength(req.Headers)
    THEN SubSeq(rest, DeclaredLength(req.Headers) + 1, Len(rest))
    ELSE rest

C23_NextRequestAfterCompleteMessage ==
    ( /\ call.op = "Handle"
      /\ HandledAndOpen(call.res)
      /\ DeclaresSomeLength(call.in.req.Headers)
            => Len(call.in.rest) >= DeclaredLength(call.in.req.Headers) )
        => call.res.o.rest = AfterBody(call.in.req, call.in.rest)

(***************************************************************************)
(* C24.  The route patterns are anchored at the start of the target: a     *)
(* target that is neither / nor /user-agent and begins with neither        *)
(* /echo/ nor /files/ is answered 404 with no body (when the response can  *)
(* be written).                                                            *)
(***************************************************************************)
BeginsWith(target, prefix) ==
    /\ Len(target) >= Len(prefix)
    /\ SubSeq(target, 1, Len(prefix)) = prefix

NoRouteBegins(target) ==
    /\ target # s_Root
    /\ target # s_UserAgentPath
    /\ ~BeginsWith(target, s_EchoPrefix)
    /\ ~BeginsWith(target, s_FilesPrefix)

C24_RoutePatternsAnchored ==
    ( /\ call.op = "Handle"
      /\ call.in.env.wok
      /\ NoRouteBegins(call.in.req.RequestTarget) )
        => /\ AnsweredWith(call.res.o, 404)
           /\ call.res.o.out[1].Body = << >>

(***************************************************************************)
(* C25.  Each response carries only headers set while its own request was  *)
(* handled: Connection only when that request asked for close,             *)
(* Content-Encoding only when it is an echo request accepting gzip,        *)
(* Content-Type and Content-Length only when it is answered 200 with a     *)
(* body by the echo, user-agent or file route, and no other header; the    *)
(* status is a code of the table with its text.                            *)
(***************************************************************************)
StatusTable ==
    {<<200, s_OK>>, <<201, s_Created>>, <<400, s_BadRequest>>,
     <<404, s_NotFound>>, <<500, s_InternalServerError>>}

RouteWithBody(req) ==
    \/ EchoRequest(req)
    \/ req.RequestTarget = s_UserAgentPath
    \/ NamedFileRequest(req) /\ req.HTTPMethod = s_GET

OwnHeadersOnly(req, r) ==
    /\ DOMAIN r.Headers
          \subseteq {s_Connection, s_ContentEncoding, s_ContentType, s_ContentLength}
    /\ HasKey(r.Headers, s_Connection) => WantsClose(req)
    /\ HasKey(r.Headers, s_ContentEncoding)
          => EchoRequest(req) /\ NegotiatesGzip(req)
    /\ HasKey(r.Headers, s_ContentType)
          => RouteWithBody(req) /\ r.StatusCode = 200
    /\ HasKey(r.Headers, s_ContentLength)
          => RouteWithBody(req) /\ r.StatusCode = 200
    /\ <<r.StatusCode, r.Status>> \in StatusTable

OwnResponses(e) ==
    \A i \in 1..Len(e.o.out) : OwnHeadersOnly(e.req, e.o.out[i])

====
